---- MODULE Spec2Model ----
(***************************************************************************)
(* Model of the Instacart MCP adapter (src/main.py): two tools,            *)
(* create_shopping_list and create_recipe, that validate a caller's        *)
(* structured input, turn it into a JSON payload and POST it through       *)
(* _call_instacart_api, which returns the products_link_url of the         *)
(* upstream response.                                                      *)
(***************************************************************************)
EXTENDS Integers, Sequences, FiniteSets, TLC

(***************************************************************************)
(* Bounds of the model.                                                    *)
(***************************************************************************)
\* number of tool invocations the calling runtime may have running at once
NumCalls == 2
\* longest line_items / ingredients list a caller passes
MaxItems == 1

Calls == 1..NumCalls

(***************************************************************************)
(* JSON / Python values, tagged by type.  A dict is a function whose       *)
(* DOMAIN is the set of keys present.                                      *)
(***************************************************************************)
None == [t |-> "none"]
Str(s) == [t |-> "str", v |-> s]
Int_(n) == [t |-> "int", v |-> n]
Float(n) == [t |-> "float", v |-> n]
Bool(b) == [t |-> "bool", v |-> b]
List(s) == [t |-> "list", v |-> s]
Obj(d) == [t |-> "obj", v |-> d]
Model(d) == [t |-> "model", v |-> d]
\* the outcome of a validation that rejects its input
Invalid == [t |-> "invalid"]
\* marks a key the caller did not pass; never a value of a dict
Absent == [t |-> "absent"]
EmptyDict == [k \in {} |-> None]

\* the dict that holds the keys of f whose value is not Absent
Strip(f) == [k \in {x \in DOMAIN f : f[x] # Absent} |-> f[k]]
SeqsUpTo(S, n) == UNION {[1..k -> S] : k \in 0..n}

(***************************************************************************)
(* The request models.  Each field: its type, whether it is required,      *)
(* whether it admits None (Optional[...]) and its default.                 *)
(***************************************************************************)
Required(ty) == [ty |-> ty, required |-> TRUE, optional |-> FALSE, default |-> Absent]
OptionalField(ty, dflt) == [ty |-> ty, required |-> FALSE, optional |-> TRUE, default |-> dflt]

\* LineItem declared like Ingredient, without the defaults
LineItemNoDefaults ==
    [name |-> Required("str"),
     quantity |-> OptionalField("float", None),
     unit |-> OptionalField("str", None),
     display_text |-> OptionalField("str", None)]

LineItem ==
    [name |-> Required("str"),
     quantity |-> OptionalField("float", Int_(1)),
     unit |-> OptionalField("str", Str("each")),
     display_text |-> OptionalField("str", None)]

ShoppingListRequest ==
    [title |-> Required("str"),
     line_items |-> Required("List[LineItem]"),
     image_url |-> OptionalField("str", None),
     instructions |-> OptionalField("List[str]", None),
     partner_linkback_url |-> OptionalField("str", None)]

Ingredient ==
    [name |-> Required("str"),
     display_text |-> OptionalField("str", None),
     quantity |-> OptionalField("float", None),
     unit |-> OptionalField("str", None)]

RecipeRequest ==
    [title |-> Required("str"),
     ingredients |-> Required("List[Ingredient]"),
     image_url |-> OptionalField("str", None),
     author |-> OptionalField("str", None),
     servings |-> OptionalField("int", None),
     cooking_time |-> OptionalField("int", None),
     instructions |-> OptionalField("List[str]", None),
     partner_linkback_url |-> OptionalField("str", None),
     enable_pantry_items |-> OptionalField("bool", Bool(FALSE))]

(***************************************************************************)
(* Validation (pydantic BaseModel): a missing field takes its default      *)
(* unvalidated, None passes an Optional field, a value is coerced to the   *)
(* declared type or rejected, keys the model does not declare are dropped. *)
(***************************************************************************)
\* text that parses as a number, with the number it parses to
NumericText == [s \in {"2", "4"} |-> IF s = "2" THEN 2 ELSE 4]
BoolText == [s \in {"true", "false"} |-> s = "true"]

ValStr(v) == IF v.t = "str" THEN v ELSE Invalid

ValFloat(v) ==
    CASE v.t \in {"int", "float"} -> Float(v.v)
      [] v.t = "bool" -> Float(IF v.v THEN 1 ELSE 0)
      [] v.t = "str" -> IF v.v \in DOMAIN NumericText THEN Float(NumericText[v.v]) ELSE Invalid
      [] OTHER -> Invalid

ValInt(v) ==
    CASE v.t \in {"int", "float"} -> Int_(v.v)
      [] v.t = "bool" -> Int_(IF v.v THEN 1 ELSE 0)
      [] v.t = "str" -> IF v.v \in DOMAIN NumericText THEN Int_(NumericText[v.v]) ELSE Invalid
      [] OTHER -> Invalid

ValBool(v) ==
    CASE v.t = "bool" -> v
      [] v.t = "int" -> IF v.v \in {0, 1} THEN Bool(v.v = 1) ELSE Invalid
      [] v.t = "str" -> IF v.v \in DOMAIN BoolText THEN Bool(BoolText[v.v]) ELSE Invalid
      [] OTHER -> Invalid

ValListStr(v) ==
    IF v.t = "list" /\ \A i \in DOMAIN v.v : v.v[i].t = "str" THEN v ELSE Invalid

ValScalar(ty, v) ==
    CASE ty = "str" -> ValStr(v)
      [] ty = "float" -> ValFloat(v)
      [] ty = "int" -> ValInt(v)
      [] ty = "bool" -> ValBool(v)
      [] ty = "List[str]" -> ValListStr(v)

RECURSIVE ValModel(_, _)
RECURSIVE ValType(_, _)

ValListOf(schema, v) ==
    IF v.t # "list" THEN Invalid
    ELSE LET items == [i \in DOMAIN v.v |-> ValModel(schema, v.v[i])]
         IN IF \E i \in DOMAIN items : items[i] = Invalid THEN Invalid ELSE List(items)

ValType(ty, v) ==
    CASE ty = "List[LineItem]" -> ValListOf(LineItem, v)
      [] ty = "List[Ingredient]" -> ValListOf(Ingredient, v)
      [] OTHER -> ValScalar(ty, v)

ValField(f, d, k) ==
    IF k \notin DOMAIN d THEN (IF f.required THEN Invalid ELSE f.default)
    ELSE IF f.optional /\ d[k] = None THEN None
    ELSE ValType(f.ty, d[k])

ValModel(schema, v) ==
    IF v.t # "obj" THEN Invalid
    ELSE LET fields == [k \in DOMAIN schema |-> ValField(schema[k], v.v, k)]
         IN IF \E k \in DOMAIN fields : fields[k] = Invalid THEN Invalid ELSE Model(fields)

(***************************************************************************)
(* request.dict(exclude_none=True): the fields whose value is not None,    *)
(* nested models converted the same way.                                   *)
(***************************************************************************)
RECURSIVE DictValue(_)
RECURSIVE DictExcludeNone(_)

\* dropping what is empty instead of what is None
ExcludeFalsy(m) == {k \in DOMAIN m.v : m.v[k] = None \/ m.v[k] = List(<<>>)}

ExcludedKeys(m) == {k \in DOMAIN m.v : m.v[k] = None}

DictExcludeNone(m) ==
    [k \in DOMAIN m.v \ ExcludedKeys(m) |-> DictValue(m.v[k])]

\* nested models converted without exclude_none
DictValueKeepNone(v) ==
    CASE v.t = "model" -> Obj(v.v)
      [] v.t = "list" ->
           List([i \in DOMAIN v.v |-> IF v.v[i].t = "model" THEN Obj(v.v[i].v) ELSE v.v[i]])
      [] OTHER -> v

DictValue(v) ==
    CASE v.t = "model" -> Obj(DictExcludeNone(v))
      [] v.t = "list" -> List([i \in DOMAIN v.v |-> DictValue(v.v[i])])
      [] OTHER -> v

\* {**d, key: value}
WithKey(d, key, value) ==
    [k \in DOMAIN d \cup {key} |-> IF k = key THEN value ELSE d[k]]

(***************************************************************************)
(* Process configuration, read once when the module is loaded.             *)
(***************************************************************************)
\* text is a sequence of characters, so that lower() has something to do
LowerChar(c) ==
    CASE c = "T" -> "t" [] c = "R" -> "r" [] c = "U" -> "u" [] c = "E" -> "e"
      [] c = "F" -> "f" [] c = "A" -> "a" [] c = "L" -> "l" [] c = "S" -> "s"
      [] OTHER -> c
Lower(s) == [n \in DOMAIN s |-> LowerChar(s[n])]
Getenv(e, name, dflt) == IF name \in DOMAIN e THEN e[name] ELSE dflt

LoadIsProd(e) == Lower(Getenv(e, "IS_PROD", <<>>)) = <<"t", "r", "u", "e">>
LoadApiKey(e) == Getenv(e, "INSTACART_API_KEY", None)
LoadApiKeyDev(e) == Getenv(e, "INSTACART_API_KEY_DEV", None)

Credentials ==
    [INSTACART_API_KEY |-> Str("key-prod"), INSTACART_API_KEY_DEV |-> Str("key-dev")]
WithIsProd(text) == WithKey(Credentials, "IS_PROD", text)
\* the environments of the concurrent specification
Environments == {Credentials, WithIsProd(<<"t", "r", "u", "e">>)}
\* the environments of the configuration specification
AllEnvironments ==
    Environments \cup
        {WithIsProd(text) : text \in {<<"T", "R", "U", "E">>, <<"T", "r", "u", "e">>,
                                      <<"f", "a", "l", "s", "e">>, <<"1">>, <<>>,
                                      <<"t", "r", "u", "e", " ">>}}

(***************************************************************************)
(* The two tools and the gateway.                                          *)
(***************************************************************************)
Tools == {"create_shopping_list", "create_recipe"}
RequestModel(tl) == IF tl = "create_shopping_list" THEN ShoppingListRequest ELSE RecipeRequest

create_shopping_list_data(request) ==
    WithKey(DictExcludeNone(request), "link_type", Str("shopping_list"))
\* a recipe payload that is given a discriminator too
create_recipe_tagged(request) ==
    WithKey(DictExcludeNone(request), "link_type", Str("recipe"))
create_recipe_data(request) == DictExcludeNone(request)

ToolEndpoint(tl) ==
    IF tl = "create_shopping_list" THEN "products/products_link" ELSE "products/recipe"
ToolData(tl, request) ==
    IF tl = "create_shopping_list" THEN create_shopping_list_data(request)
    ELSE create_recipe_data(request)

\* seconds
Timeout == 30
ProdBaseUrl == "https://connect.instacart.com"
DevBaseUrl == "https://connect.dev.instacart.tools"

\* both branches sending the production credential
PostRequestOneKey(isProd, apiKey, apiKeyDev, endpoint, data) ==
    [url |-> <<IF isProd THEN ProdBaseUrl ELSE DevBaseUrl, "/idp/v1/", endpoint>>,
     json |-> data, authorization |-> <<"Bearer", apiKey>>, timeout |-> Timeout]

\* the POST _call_instacart_api issues for an endpoint and a payload
PostRequest(isProd, apiKey, apiKeyDev, endpoint, data) ==
    IF isProd
    THEN [url |-> <<ProdBaseUrl, "/idp/v1/", endpoint>>, json |-> data,
          authorization |-> <<"Bearer", apiKey>>, timeout |-> Timeout]
    ELSE [url |-> <<DevBaseUrl, "/idp/v1/", endpoint>>, json |-> data,
          authorization |-> <<"Bearer", apiKeyDev>>, timeout |-> Timeout]

\* one module-level client shared by every call
SharedClient(made) == 1
\* the POST issued a second time
IssuePostTwice(n) == n + 2
\* a client closed only when the call returns
ExitOnReturnOnly(opened, c, outcome) == IF outcome.kind = "return" THEN opened \ {c} ELSE opened

\* httpx.AsyncClient(): a client object no other call holds
NewClient(made) == made + 1
\* client.post is called once in either branch
IssuePost(n) == n + 1
\* leaving the `async with` block closes the client, whatever the outcome
ExitClient(opened, c, outcome) == opened \ {c}

Returned(v) == [kind |-> "return", value |-> v]
Raised(e) == [kind |-> "raise", value |-> e]
NoOutcome == [kind |-> "none"]

\* only server errors treated as failures
IsNotServerError(status) == status < 500
\* response.raise_for_status(): raises unless the status is 2xx
IsSuccess(status) == status \in 200..299
\* response.json()
NotJson == [t |-> "text"]
\* value.get(key)
SubscriptGet(value, key) ==
    CASE value.t = "obj" ->
           IF key \in DOMAIN value.v THEN Returned(value.v[key]) ELSE Returned(None)
      [] OTHER -> Raised([error |-> "TypeError"])

\* value[key]
Subscript(value, key) ==
    CASE value.t = "obj" ->
           IF key \in DOMAIN value.v THEN Returned(value.v[key])
           ELSE Raised([error |-> "KeyError"])
      [] OTHER -> Raised([error |-> "TypeError"])

\* lines 116-117: what the gateway makes of a response
Unwrap(response) ==
    IF ~IsSuccess(response.status)
    THEN Raised([error |-> "HTTPStatusError", status |-> response.status,
                 body |-> response.body])
    ELSE IF response.body = NotJson THEN Raised([error |-> "JSONDecodeError"])
    ELSE Subscript(response.body, "products_link_url")

(***************************************************************************)
(* The upstream service and the caller's inputs.                           *)
(***************************************************************************)
\* the link the upstream makes for the request of call i
UrlOf(i) == Str(<<"https://instacart.com/", i>>)
WithLink(i) == Obj([products_link_url |-> UrlOf(i)])
WithoutLink == Obj([error |-> Str("unprocessable")])
\* what the upstream may answer the request of call i
UpstreamResponses(i) ==
    {[status |-> 200, body |-> b] : b \in {WithLink(i), WithoutLink, List(<<>>), NotJson}}
        \cup {[status |-> 422, body |-> b] : b \in {WithLink(i), WithoutLink}}
        \cup {[status |-> 500, body |-> NotJson]}
TransportErrors == {"TimeoutException", "ConnectError"}

RawLineItems ==
    {Obj(Strip(r)) : r \in [name : {Str("Burger Buns")},
                            quantity : {Absent, None, Int_(2), Str("abc")},
                            unit : {Absent, None, Str("cans")},
                            display_text : {Absent, Str("fresh")}]}
RawIngredients ==
    {Obj(Strip(r)) : r \in [name : {Str("Beans")},
                            display_text : {Absent, Str("rinsed")},
                            quantity : {Absent, None, Int_(2)},
                            unit : {Absent, Str("cans")}]}
RawList(S) == {Absent} \cup {List(s) : s \in SeqsUpTo(S, MaxItems)}

RawShoppingLists ==
    {Obj(Strip(r)) : r \in [title : {Absent, Str("Weekend BBQ")},
                            line_items : RawList(RawLineItems),
                            image_url : {Absent, None, Str("https://img")},
                            instructions : {Absent, None, List(<<>>), List(<<Str("grill")>>)},
                            partner_linkback_url : {Absent, Str("https://partner")},
                            link_type : {Absent, Str("recipe")}]}
RawRecipes ==
    {Obj(Strip(r)) : r \in [title : {Absent, Str("Chili")},
                            ingredients : RawList(RawIngredients),
                            image_url : {Absent, Str("https://img")},
                            author : {Absent, None},
                            servings : {Absent, Int_(4), Str("four")},
                            cooking_time : {Absent, Str("4")},
                            instructions : {Absent, List(<<>>)},
                            partner_linkback_url : {Absent, Str("https://partner")},
                            enable_pantry_items : {Absent, None, Bool(TRUE)},
                            link_type : {Absent, Str("shopping_list")}]}
RawArguments(tl) == IF tl = "create_shopping_list" THEN RawShoppingLists ELSE RawRecipes

\* the calls of the concurrent specification: the two scenarios and a rejected input
SampleArguments(tl) ==
    IF tl = "create_shopping_list"
    THEN {Obj([title |-> Str("Weekend BBQ"),
               line_items |-> List(<<Obj([name |-> Str("Burger Buns")])>>)]),
          Obj([line_items |-> List(<<>>)])}
    ELSE {Obj([title |-> Str("Chili"),
               ingredients |-> List(<<Obj([name |-> Str("Beans"), quantity |-> Int_(2),
                                           unit |-> Str("cans")])>>),
               enable_pantry_items |-> Bool(TRUE)])}

(***************************************************************************)
(* State.                                                                  *)
(***************************************************************************)
VARIABLES
    environ,      \* the process environment
    IS_PROD,      \* module globals, set when the module is loaded
    API_KEY,
    API_KEY_DEV,
    pc,           \* where each tool invocation stands
    tool,         \* the tool each invocation calls
    arguments,    \* the caller's input, as received
    client,       \* the HTTP client of each invocation, 0 before it has one
    made,         \* how many clients have been constructed
    opened,       \* the clients that are open
    posts,        \* how many POSTs each invocation has issued
    request,      \* the POST each invocation issued
    responses,    \* the responses the upstream has sent, by client connection
    outcome       \* what each invocation returned or raised

vars == <<environ, IS_PROD, API_KEY, API_KEY_DEV, pc, tool, arguments, client, made,
          opened, posts, request, responses, outcome>>
config == <<environ, IS_PROD, API_KEY, API_KEY_DEV>>

NoRequest == [url |-> <<>>]

Load(e) ==
    /\ environ = e
    /\ IS_PROD = LoadIsProd(e)
    /\ API_KEY = LoadApiKey(e)
    /\ API_KEY_DEV = LoadApiKeyDev(e)

Idle ==
    /\ pc = [i \in Calls |-> "idle"]
    /\ tool = [i \in Calls |-> "none"]
    /\ arguments = [i \in Calls |-> None]
    /\ client = [i \in Calls |-> 0]
    /\ made = 0
    /\ opened = {}
    /\ posts = [i \in Calls |-> 0]
    /\ request = [i \in Calls |-> NoRequest]
    /\ responses = EmptyDict
    /\ outcome = [i \in Calls |-> NoOutcome]

Init == (\E e \in Environments : Load(e)) /\ Idle

\* the runtime receives a tool call
Receive(i) ==
    /\ pc[i] = "idle"
    /\ \E tl \in Tools : \E a \in SampleArguments(tl) :
          /\ tool' = [tool EXCEPT ![i] = tl]
          /\ arguments' = [arguments EXCEPT ![i] = a]
    /\ pc' = [pc EXCEPT ![i] = "pending"]
    /\ UNCHANGED <<config, client, made, opened, posts, request, responses, outcome>>

\* the runtime validates the input and runs the tool up to its first suspension:
\* the payload is built, the client opened and the POST issued
Dispatch(i) ==
    /\ pc[i] = "pending"
    /\ LET validated == ValModel(RequestModel(tool[i]), arguments[i])
       IN IF validated = Invalid
          THEN /\ pc' = [pc EXCEPT ![i] = "raised"]
               /\ outcome' = [outcome EXCEPT ![i] = Raised([error |-> "ValidationError"])]
               /\ UNCHANGED <<client, made, opened, posts, request>>
          ELSE LET c == NewClient(made)
               IN /\ made' = made + 1
                  /\ client' = [client EXCEPT ![i] = c]
                  /\ opened' = opened \cup {c}
                  /\ posts' = [posts EXCEPT ![i] = IssuePost(posts[i])]
                  /\ request' = [request EXCEPT ![i] =
                        PostRequest(IS_PROD, API_KEY, API_KEY_DEV, ToolEndpoint(tool[i]),
                                    ToolData(tool[i], validated))]
                  /\ pc' = [pc EXCEPT ![i] = "awaiting"]
                  /\ UNCHANGED outcome
    /\ UNCHANGED <<config, tool, arguments, responses>>

\* the upstream answers the request of call i on the connection it came in on
Respond(i) ==
    /\ pc[i] = "awaiting"
    /\ client[i] \notin DOMAIN responses
    /\ \E r \in UpstreamResponses(i) :
          responses' = [c \in DOMAIN responses \cup {client[i]} |->
                           IF c = client[i] THEN r ELSE responses[c]]
    /\ UNCHANGED <<config, pc, tool, arguments, client, made, opened, posts, request, outcome>>

Finish(i, o) ==
    /\ outcome' = [outcome EXCEPT ![i] = o]
    /\ opened' = ExitClient(opened, client[i], o)
    /\ pc' = [pc EXCEPT ![i] = IF o.kind = "return" THEN "returned"
                                ELSE IF o.value.error = "CancelledError" THEN "cancelled"
                                ELSE "raised"]
    /\ UNCHANGED <<config, tool, arguments, client, made, posts, request, responses>>

\* the awaited POST completes and the call runs to its end
Resume(i) ==
    /\ pc[i] = "awaiting"
    /\ client[i] \in DOMAIN responses
    /\ Finish(i, Unwrap(responses[client[i]]))

\* the awaited POST fails: the 30 s timeout expires or the connection fails
TransportError(i) ==
    /\ pc[i] = "awaiting"
    /\ client[i] \notin DOMAIN responses
    /\ \E e \in TransportErrors : Finish(i, Raised([error |-> e]))

\* the runtime cancels the call while it awaits the POST
Cancel(i) ==
    /\ pc[i] = "awaiting"
    /\ Finish(i, Raised([error |-> "CancelledError"]))

Step(i) ==
    \/ Receive(i)
    \/ Dispatch(i)
    \/ Respond(i)
    \/ Resume(i)
    \/ TransportError(i)
    \/ Cancel(i)

Next == \E i \in Calls : Step(i)

\* concurrent tool invocations
Spec == Init /\ [][Next]_vars

\* payload shaping: one invocation, any input of the bounded input sets
InitPayload ==
    /\ Load(Credentials)
    /\ \E tl \in Tools : \E a \in RawArguments(tl) :
          /\ tool = [i \in Calls |-> IF i = 1 THEN tl ELSE "none"]
          /\ arguments = [i \in Calls |-> IF i = 1 THEN a ELSE None]
    /\ pc = [i \in Calls |-> IF i = 1 THEN "pending" ELSE "idle"]
    /\ client = [i \in Calls |-> 0]
    /\ made = 0
    /\ opened = {}
    /\ posts = [i \in Calls |-> 0]
    /\ request = [i \in Calls |-> NoRequest]
    /\ responses = EmptyDict
    /\ outcome = [i \in Calls |-> NoOutcome]
NextPayload == Dispatch(1)
SpecPayload == InitPayload /\ [][NextPayload]_vars

\* environment selection: one invocation, any environment
InitEnv == (\E e \in AllEnvironments : Load(e)) /\ Idle
NextEnv == Step(1)
SpecEnv == InitEnv /\ [][NextEnv]_vars
(***************************************************************************)
(* Properties.                                                             *)
(***************************************************************************)
HasRequest(i) == request[i] # NoRequest
Payload(i) == request[i].json
Endpoint(i) == request[i].url[3]
\* the keys the caller passed with a value (JSON null is no value)
SetKeys(d) == {k \in DOMAIN d : d[k] # None}
Finished(i) == pc[i] \in {"returned", "raised", "cancelled"}
\* the call consumed the response of the upstream
Answered(i) == pc[i] \in {"returned", "raised"} /\ client[i] \in DOMAIN responses
Response(i) == responses[client[i]]

\* a line item or ingredient of the payload keeps what the caller set in it
ItemKeeps(raw, sent) ==
    \A k \in SetKeys(raw.v) :
        /\ k \in DOMAIN sent.v
        /\ sent.v[k].v = raw.v[k].v

\* the payload value of field k keeps the caller's value
FieldKeeps(k, raw, sent) ==
    IF k = "line_items"
    THEN /\ sent.t = "list"
         /\ Len(sent.v) = Len(raw.v)
         /\ \A n \in DOMAIN raw.v : ItemKeeps(raw.v[n], sent.v[n])
    ELSE sent = raw

\* C1: the payload create_shopping_list hands to the gateway contains every
\* field the caller set (an empty sequence counts as set and is kept), omits
\* every optional field of the request the caller left unset, and always
\* contains link_type = "shopping_list".
C1_ShoppingPayloadFields ==
    \A i \in Calls :
        (tool[i] = "create_shopping_list" /\ HasRequest(i)) =>
            LET a == arguments[i].v
                p == Payload(i)
            IN /\ \A k \in DOMAIN ShoppingListRequest \cap SetKeys(a) :
                     k \in DOMAIN p /\ FieldKeeps(k, a[k], p[k])
               /\ \A k \in {"image_url", "instructions", "partner_linkback_url"} :
                     k \notin DOMAIN a => k \notin DOMAIN p
               /\ "link_type" \in DOMAIN p
               /\ p["link_type"] = Str("shopping_list")

\* a shopping list whose empty instructions and empty line_items were sent, and
\* whose image_url the caller left unset
C1_Witness ==
    \E i \in Calls :
        /\ tool[i] = "create_shopping_list" /\ HasRequest(i)
        /\ "instructions" \in DOMAIN arguments[i].v
        /\ arguments[i].v["instructions"] = List(<<>>)
        /\ arguments[i].v["line_items"] = List(<<>>)
        /\ "image_url" \notin DOMAIN arguments[i].v
        /\ Payload(i)["instructions"] = List(<<>>)
        /\ Payload(i)["line_items"] = List(<<>>)

RECURSIVE NoNull(_)
NoNull(v) ==
    /\ v # None
    /\ v.t = "obj" => \A k \in DOMAIN v.v : NoNull(v.v[k])
    /\ v.t = "list" => \A n \in DOMAIN v.v : NoNull(v.v[n])

\* the keys that hold no value in the caller's dict d, among the Optional
\* fields of a model whose default is None
NoValueKeys(schema, d) ==
    {k \in DOMAIN schema :
        /\ schema[k].optional
        /\ schema[k].default = None
        /\ (k \notin DOMAIN d \/ d[k] = None)}

ItemsKey(tl) == IF tl = "create_shopping_list" THEN "line_items" ELSE "ingredients"
ItemModel(tl) == IF tl = "create_shopping_list" THEN LineItem ELSE Ingredient

\* C2: no key of the outbound payload of either tool holds null at any
\* depth; an absent optional field of the request, and of each nested line
\* item or ingredient, is omitted from the payload.
C2_NoNullAnywhere ==
    \A i \in Calls :
        HasRequest(i) =>
            LET a == arguments[i].v
                p == Payload(i)
                items == ItemsKey(tool[i])
            IN /\ NoNull(Obj(p))
               /\ \A k \in NoValueKeys(RequestModel(tool[i]), a) : k \notin DOMAIN p
               /\ \A n \in DOMAIN a[items].v :
                     \A k \in NoValueKeys(ItemModel(tool[i]), a[items].v[n].v) :
                         k \notin DOMAIN p[items].v[n].v

\* a recipe was sent whose caller passed null for author and for the quantity
\* of an ingredient
C2_Witness ==
    \E i \in Calls :
        /\ tool[i] = "create_recipe" /\ HasRequest(i)
        /\ "author" \in DOMAIN arguments[i].v /\ arguments[i].v["author"] = None
        /\ Len(arguments[i].v["ingredients"].v) > 0
        /\ "quantity" \in DOMAIN arguments[i].v["ingredients"].v[1].v
        /\ arguments[i].v["ingredients"].v[1].v["quantity"] = None
        /\ "quantity" \notin DOMAIN Payload(i)["ingredients"].v[1].v

\* C3: with IS_PROD true every request goes to https://connect.instacart.com
\* with the production credential; with IS_PROD false or unset every request
\* goes to https://connect.dev.instacart.tools with the development
\* credential; no request mixes the two.
C3_EnvironmentSelection ==
    \A i \in Calls :
        HasRequest(i) =>
            LET r == request[i]
                prod == /\ r.url[1] = "https://connect.instacart.com"
                        /\ r.authorization = <<"Bearer", environ["INSTACART_API_KEY"]>>
                dev == /\ r.url[1] = "https://connect.dev.instacart.tools"
                       /\ r.authorization = <<"Bearer", environ["INSTACART_API_KEY_DEV"]>>
            IN /\ IS_PROD => prod
               /\ ~IS_PROD => dev
               /\ "IS_PROD" \notin DOMAIN environ => dev
               /\ environ["INSTACART_API_KEY"] # environ["INSTACART_API_KEY_DEV"]

\* a request of a process started with IS_PROD=TRUE
C3_Witness ==
    \E i \in Calls :
        /\ HasRequest(i)
        /\ "IS_PROD" \in DOMAIN environ
        /\ environ["IS_PROD"] = <<"T", "R", "U", "E">>
        /\ request[i].url[1] = "https://connect.instacart.com"

\* C4: a response with a failure status makes the call fail with an HTTP
\* status error that carries the status and the body, and no URL is
\* returned, even when the failure body holds a products_link_url.
C4_FailureStatusRaises ==
    \A i \in Calls :
        (Answered(i) /\ Response(i).status \in 400..599) =>
            /\ pc[i] = "raised"
            /\ outcome[i] = Raised([error |-> "HTTPStatusError",
                                    status |-> Response(i).status,
                                    body |-> Response(i).body])

\* a call answered 422 with a body that holds a products_link_url
C4_Witness ==
    \E i \in Calls :
        /\ Answered(i)
        /\ Response(i) = [status |-> 422, body |-> WithLink(i)]
        /\ outcome[i].kind = "raise"

HasLink(body) == body.t = "obj" /\ "products_link_url" \in DOMAIN body.v

\* C5: a success response whose JSON body lacks products_link_url makes the
\* call fail (with KeyError when the body is an object) instead of returning
\* None or an empty string; a call that returns normally returns the
\* products_link_url of a success response.
C5_MissingLinkRaises ==
    \A i \in Calls :
        /\ (Answered(i) /\ Response(i).status \in 200..299
               /\ Response(i).body # NotJson /\ ~HasLink(Response(i).body)) =>
              /\ pc[i] = "raised"
              /\ outcome[i].kind = "raise"
              /\ Response(i).body.t = "obj" => outcome[i].value = [error |-> "KeyError"]
        /\ pc[i] = "returned" =>
              /\ client[i] \in DOMAIN responses
              /\ Response(i).status \in 200..299
              /\ HasLink(Response(i).body)
              /\ outcome[i] = Returned(Response(i).body.v["products_link_url"])

\* a call answered 200 with a JSON object that lacks the link
C5_Witness ==
    \E i \in Calls :
        /\ Answered(i)
        /\ Response(i) = [status |-> 200, body |-> WithoutLink]
        /\ outcome[i] = Raised([error |-> "KeyError"])

\* C6: link_type is in every payload sent to products/products_link, with
\* the value "shopping_list", and in no payload sent to products/recipe,
\* whatever the caller passed.
C6_Discriminator ==
    \A i \in Calls :
        HasRequest(i) =>
            /\ Endpoint(i) \in {"products/products_link", "products/recipe"}
            /\ Endpoint(i) = "products/products_link" <=> tool[i] = "create_shopping_list"
            /\ Endpoint(i) = "products/products_link" =>
                  /\ "link_type" \in DOMAIN Payload(i)
                  /\ Payload(i)["link_type"] = Str("shopping_list")
            /\ Endpoint(i) = "products/recipe" => "link_type" \notin DOMAIN Payload(i)

\* a recipe was sent whose caller passed a link_type of their own
C6_Witness ==
    \E i \in Calls :
        /\ HasRequest(i)
        /\ Endpoint(i) = "products/recipe"
        /\ "link_type" \in DOMAIN arguments[i].v

\* the line items of the payload of call i, with the items the caller passed
LineItemPairs(i) ==
    {<<arguments[i].v["line_items"].v[n], Payload(i)["line_items"].v[n]>> :
        n \in DOMAIN Payload(i)["line_items"].v}

DefaultsApplied(raw, sent) ==
    /\ "quantity" \notin DOMAIN raw.v =>
          "quantity" \in DOMAIN sent.v /\ sent.v["quantity"] = Int_(1)
    /\ "unit" \notin DOMAIN raw.v =>
          "unit" \in DOMAIN sent.v /\ sent.v["unit"] = Str("each")

\* C7 as stated: a line item the caller gave no quantity or unit carries
\* quantity = 1 and unit = "each", so every line item of the payload has a
\* name, a quantity and a unit, none of them null.
C7_AsStated ==
    \A i \in Calls :
        (tool[i] = "create_shopping_list" /\ HasRequest(i)) =>
            \A pair \in LineItemPairs(i) :
                /\ DefaultsApplied(pair[1], pair[2])
                /\ {"name", "quantity", "unit"} \subseteq DOMAIN pair[2].v
                /\ NoNull(pair[2])

\* C7 amended: a line item the caller gave no quantity or unit carries
\* quantity = 1 and unit = "each"; every line item of the payload has a name
\* and no null, and has a quantity (a unit) unless the caller passed null for
\* it, in which case the key is omitted.
C7_DefaultsUnlessNull ==
    \A i \in Calls :
        (tool[i] = "create_shopping_list" /\ HasRequest(i)) =>
            \A pair \in LineItemPairs(i) :
                /\ DefaultsApplied(pair[1], pair[2])
                /\ "name" \in DOMAIN pair[2].v
                /\ NoNull(pair[2])
                /\ \A k \in {"quantity", "unit"} :
                      k \in DOMAIN pair[2].v <=>
                          ~(k \in DOMAIN pair[1].v /\ pair[1].v[k] = None)

\* the scenario of a line item with a name only
C7_Witness ==
    \E i \in Calls :
        /\ tool[i] = "create_shopping_list" /\ HasRequest(i)
        /\ arguments[i].v["line_items"] = List(<<Obj([name |-> Str("Burger Buns")])>>)
        /\ Payload(i)["line_items"] =
              List(<<Obj([name |-> Str("Burger Buns"), quantity |-> Int_(1),
                          unit |-> Str("each")])>>)

ValidationFailed(i) == outcome[i] = Raised([error |-> "ValidationError"])

\* C8: an invocation issues at most one POST: none when validation fails,
\* exactly one otherwise, whatever the outcome of the request; a failed
\* request is not retried.
C8_OnePostPerCall ==
    \A i \in Calls :
        /\ posts[i] <= 1
        /\ ValidationFailed(i) => posts[i] = 0 /\ ~HasRequest(i)
        /\ (pc[i] = "awaiting" \/ (Finished(i) /\ ~ValidationFailed(i))) =>
              posts[i] = 1 /\ HasRequest(i)
        /\ pc[i] \in {"idle", "pending"} => posts[i] = 0

\* one call was rejected by validation and another failed with a status error
C8_Witness ==
    \E i, j \in Calls :
        /\ ValidationFailed(i) /\ posts[i] = 0
        /\ outcome[j].kind = "raise"
        /\ outcome[j].value.error = "HTTPStatusError"
        /\ posts[j] = 1

\* C9: concurrent invocations each use their own client and their own
\* payload, and one that receives a status-200 response returns the
\* products_link_url of the response to its own request.
C9_Isolation ==
    \A i \in Calls :
        /\ \A j \in Calls \ {i} : client[i] # 0 => client[i] # client[j]
        /\ HasRequest(i) =>
              /\ Endpoint(i) = ToolEndpoint(tool[i])
              /\ Payload(i)["title"] = arguments[i].v["title"]
        /\ (Answered(i) /\ Response(i) = [status |-> 200, body |-> WithLink(i)]) =>
              outcome[i] = Returned(UrlOf(i))
        /\ pc[i] = "returned" => outcome[i] = Returned(UrlOf(i))

\* two calls that ran concurrently and returned each its own link
C9_Witness ==
    \E i, j \in Calls :
        /\ i # j
        /\ pc[i] = "returned" /\ pc[j] = "returned"
        /\ tool[i] # tool[j]
        /\ client[i] > client[j]
        /\ outcome[i] = Returned(UrlOf(i))
        /\ outcome[j] = Returned(UrlOf(j))

\* C10: the client a gateway call opens is closed on every exit path, so
\* the only open clients are those of calls that await their POST.
C10_ClientReleased ==
    /\ \A i \in Calls : Finished(i) => client[i] \notin opened
    /\ opened = {client[i] : i \in {j \in Calls : pc[j] = "awaiting"}}

\* every exit path taken after the client was opened: a cancelled call, a
\* call that raised and a call that returned, no client left open
C10_Witness ==
    /\ opened = {}
    /\ \E i, j \in Calls :
          /\ pc[i] = "cancelled" /\ client[i] # 0
          /\ pc[j] = "raised" /\ client[j] # 0
====
